---------------------------- MODULE Spec2Model ----------------------------
(***************************************************************************)
(* Model of yacht/yacht.py: the scoring categories (pure class methods)    *)
(* and the ScoreBoard that commits one ScoreBoardRow per category.         *)
(*                                                                         *)
(* A Python tuple of ints is a TLA+ sequence of integers.  A combination   *)
(* object handed to ScoreBoard.add is a record                             *)
(*   [tuple |-> is it a tuple, ints |-> are all elements int, elems |-> s] *)
(* so that the isinstance checks of ScoreBoardRow.__post_init__ have       *)
(* something to decide.  A category is the name of its class; a value that *)
(* is not a Category (a str, an int) is NotACategory.                      *)
(*                                                                         *)
(* A call that may raise returns [exc |-> ..., val |-> ...]; exc is        *)
(* NoException when the call returns normally.                             *)
(***************************************************************************)
EXTENDS Integers, Sequences, FiniteSets, TLC

VARIABLES
    rows,            \* ScoreBoard.rows: dict Category -> ScoreBoardRow
    call,            \* arguments of the last ScoreBoard.add call
    exc,             \* what the last ScoreBoard.add call raised
    my_combination,  \* the combination handed to Category.measure
    my_category,     \* the category last measured
    measured         \* what that measure call returned or raised

vars == <<rows, call, exc, my_combination, my_category, measured>>

---------------------------------------------------------------------------
(* Module constants *)

DICE_NUMBERS == 1..6

COMBINATION_LENGTH == 5

\* Longest combination rand_combination(k) is asked for in MeasureSpec.
MaxLen == 6

UPPER_SECTION_CATEGORIES == <<"Aces", "Deuces", "Threes", "Fours", "Fives", "Sixs">>

LOWER_SECTION_CATEGORIES ==
    <<"Choice", "FourOfAKind", "FullHouse", "SmallStraight", "LargeStraight", "Yacht">>

Categories ==
    {UPPER_SECTION_CATEGORIES[i] : i \in DOMAIN UPPER_SECTION_CATEGORIES}
        \cup {LOWER_SECTION_CATEGORIES[i] : i \in DOMAIN LOWER_SECTION_CATEGORIES}

NotACategory == "NotACategory"

---------------------------------------------------------------------------
(* Exceptions *)

NoException == "None"
NotCalled == "NotCalled"
ValueError_length == "ValueError: needs the combination exactly 5-length"
ValueError_duplicate == "ValueError: Category already in self.rows"
TypeError_combination == "TypeError: self.combination should be Combination type"
TypeError_category == "TypeError: self.category should be Category"

Return(v) == [exc |-> NoException, val |-> v]
Raise(e, v) == [exc |-> e, val |-> v]

---------------------------------------------------------------------------
(* Python builtins on tuples *)

RECURSIVE sum(_)
sum(s) == IF s = <<>> THEN 0 ELSE Head(s) + sum(Tail(s))

\* tuple.count(x)
count(s, x) == Cardinality({i \in DOMAIN s : s[i] = x})

\* set(int(each) for each in combination)
uniques(s) == {s[i] : i \in DOMAIN s}

\* tuple(range(a, b))
range(a, b) == [i \in 1..(IF b > a THEN b - a ELSE 0) |-> a + i - 1]

Min(S) == CHOOSE x \in S : \A y \in S : x <= y
Max(S) == CHOOSE x \in S : \A y \in S : x >= y

\* rand_combination(k): the tuples random.choices(DICE_NUMBERS, k=k) can return
rand_combination(k) == [1..k -> DICE_NUMBERS]

---------------------------------------------------------------------------
(* Categories *)

specific(cls) ==
    CASE cls = "Aces" -> 1
      [] cls = "Deuces" -> 2
      [] cls = "Threes" -> 3
      [] cls = "Fours" -> 4
      [] cls = "Fives" -> 5
      [] cls = "Sixs" -> 6
      [] OTHER -> 0

MatchSpecific_match(combination) == Return(TRUE)

\* Mutant of MatchSpecific._measure: counts the matching dice instead of summing them
MatchSpecific_measure_count(cls, combination) ==
    Len(SelectSeq(combination, LAMBDA each : each = specific(cls)))

MatchSpecific_measure(cls, combination) ==
    sum(SelectSeq(combination, LAMBDA each : each = specific(cls)))

SumAll_measure(combination) == sum(combination)

Choice_match(combination) == Return(TRUE)

NUM_DUPLICATES == 4

FourOfAKind_match(combination) ==
    Return(\E each \in uniques(combination) : count(combination, each) >= NUM_DUPLICATES)

\* Mutant of FullHouse.match: two distinct values suffice, 4+1 matches
FullHouse_match_two_values(combination) ==
    IF Len(combination) # 5
    THEN Raise(ValueError_length, FALSE)
    ELSE Return(Cardinality(uniques(combination)) = 2)

FullHouse_match(combination) ==
    IF Len(combination) # 5
    THEN Raise(ValueError_length, FALSE)
    ELSE Return(Cardinality(uniques(combination)) = 2
                  /\ {count(combination, each) : each \in uniques(combination)} = {2, 3})

STRAIGHT_LENGTH(cls) ==
    CASE cls = "SmallStraight" -> 4
      [] cls = "LargeStraight" -> 5

\* Mutant of Straight.templates: range end off by one, the last window is lost
Straight_templates_short(cls) ==
    LET starts == range(Min(DICE_NUMBERS), Max(DICE_NUMBERS) - STRAIGHT_LENGTH(cls) + 1)
    IN  [k \in DOMAIN starts |-> range(starts[k], starts[k] + STRAIGHT_LENGTH(cls))]

Straight_templates(cls) ==
    LET starts == range(Min(DICE_NUMBERS), Max(DICE_NUMBERS) - STRAIGHT_LENGTH(cls) + 2)
    IN  [k \in DOMAIN starts |-> range(starts[k], starts[k] + STRAIGHT_LENGTH(cls))]

ContainsTemplate_match(cls, combination) ==
    LET templates == Straight_templates(cls)
    IN  Return(\E k \in DOMAIN templates :
                  \A each \in uniques(templates[k]) :
                      count(combination, each) >= count(templates[k], each))

Straight_measure(cls) ==
    CASE cls = "SmallStraight" -> 15
      [] cls = "LargeStraight" -> 30

Yacht_match(combination) == Return(1 = Cardinality(uniques(combination)))

Yacht_measure(combination) == 50

\* cls.match(combination)
match(cls, combination) ==
    CASE cls \in uniques(UPPER_SECTION_CATEGORIES) -> MatchSpecific_match(combination)
      [] cls = "Choice" -> Choice_match(combination)
      [] cls = "FourOfAKind" -> FourOfAKind_match(combination)
      [] cls = "FullHouse" -> FullHouse_match(combination)
      [] cls \in {"SmallStraight", "LargeStraight"} -> ContainsTemplate_match(cls, combination)
      [] cls = "Yacht" -> Yacht_match(combination)

\* cls._measure(combination)
raw_measure(cls, combination) ==
    CASE cls \in uniques(UPPER_SECTION_CATEGORIES) -> MatchSpecific_measure(cls, combination)
      [] cls \in {"Choice", "FourOfAKind", "FullHouse"} -> SumAll_measure(combination)
      [] cls \in {"SmallStraight", "LargeStraight"} -> Straight_measure(cls)
      [] cls = "Yacht" -> Yacht_measure(combination)

\* Category.measure
measure(cls, combination) ==
    LET m == match(cls, combination)
    IN  IF m.exc # NoException THEN Raise(m.exc, 0)
        ELSE IF ~m.val THEN Return(0)
        ELSE Return(raw_measure(cls, combination))

---------------------------------------------------------------------------
(* Combination objects handed to ScoreBoard.add *)

\* a tuple of ints
Tuple(s) == [tuple |-> TRUE, ints |-> TRUE, elems |-> s]

\* a list of ints: not isinstance(combination, tuple)
List(s) == [tuple |-> FALSE, ints |-> TRUE, elems |-> s]

\* a tuple with an element that is not an int (a float of the same value)
FloatTuple(s) == [tuple |-> TRUE, ints |-> FALSE, elems |-> s]

---------------------------------------------------------------------------
(* ScoreBoardRow and ScoreBoard *)

None == "None"

\* isinstance(category, Category)
IsCategory(category) == category \in Categories

\* Mutant of ScoreBoardRow: the combination's type is not checked
ScoreBoardRow_unchecked(combination, category) ==
    IF ~IsCategory(category)
    THEN Raise(TypeError_category, None)
    ELSE LET m == measure(category, combination.elems)
         IN  IF m.exc # NoException
             THEN Raise(m.exc, None)
             ELSE Return([combination |-> combination,
                          category |-> category,
                          score |-> m.val])

\* Mutant of ScoreBoardRow: score taken from _measure, match not consulted
ScoreBoardRow_unmatched(combination, category) ==
    IF ~combination.tuple \/ ~combination.ints
    THEN Raise(TypeError_combination, None)
    ELSE IF ~IsCategory(category)
    THEN Raise(TypeError_category, None)
    ELSE Return([combination |-> combination,
                 category |-> category,
                 score |-> raw_measure(category, combination.elems)])

\* ScoreBoardRow(combination=..., category=...): dataclass __init__ + __post_init__
ScoreBoardRow(combination, category) ==
    IF ~combination.tuple \/ ~combination.ints
    THEN Raise(TypeError_combination, None)
    ELSE IF ~IsCategory(category)
    THEN Raise(TypeError_category, None)
    ELSE LET m == measure(category, combination.elems)
         IN  IF m.exc # NoException
             THEN Raise(m.exc, None)
             ELSE Return([combination |-> combination,
                          category |-> category,
                          score |-> m.val])

\* Mutant of SetItem: self.rows = {k: v}, every other entry is lost
SetItem_rebind(d, k, v) == [x \in {k} |-> v]

\* d[k] = v
SetItem(d, k, v) == [x \in DOMAIN d \cup {k} |-> IF x = k THEN v ELSE d[x]]

\* Mutant of ScoreBoard.add: the slot is reserved before the row is built, and
\* stays reserved when building it raises
ScoreBoard_add_reserve(self_rows, combination, category) ==
    IF category \in DOMAIN self_rows
    THEN Raise(ValueError_duplicate, self_rows)
    ELSE LET row == ScoreBoardRow(combination, category)
         IN  IF row.exc # NoException
             THEN Raise(row.exc, SetItem(self_rows, category, None))
             ELSE Return(SetItem(self_rows, category, row.val))

\* Mutant of ScoreBoard.add: no membership test, a second add overwrites
ScoreBoard_add_overwrite(self_rows, combination, category) ==
    LET row == ScoreBoardRow(combination, category)
    IN  IF row.exc # NoException
        THEN Raise(row.exc, self_rows)
        ELSE Return(SetItem(self_rows, category, row.val))

\* ScoreBoard.add: val is self.rows after the call
ScoreBoard_add(self_rows, combination, category) ==
    IF category \in DOMAIN self_rows
    THEN Raise(ValueError_duplicate, self_rows)
    ELSE LET row == ScoreBoardRow(combination, category)
         IN  IF row.exc # NoException
             THEN Raise(row.exc, self_rows)
             ELSE Return(SetItem(self_rows, category, row.val))

\* Mutant of upper_section_bonus: == 63 instead of >= 63
upper_section_bonus_exact(self_rows) ==
    LET present == SelectSeq(UPPER_SECTION_CATEGORIES,
                             LAMBDA category : category \in DOMAIN self_rows)
    IN  IF sum([i \in DOMAIN present |-> self_rows[present[i]].score]) = 63
        THEN 35
        ELSE 0

\* Mutant of upper_section_bonus: > 63 instead of >= 63
upper_section_bonus_strict(self_rows) ==
    LET present == SelectSeq(UPPER_SECTION_CATEGORIES,
                             LAMBDA category : category \in DOMAIN self_rows)
    IN  IF sum([i \in DOMAIN present |-> self_rows[present[i]].score]) > 63
        THEN 35
        ELSE 0

\* ScoreBoard.upper_section_bonus
upper_section_bonus(self_rows) ==
    LET present == SelectSeq(UPPER_SECTION_CATEGORIES,
                             LAMBDA category : category \in DOMAIN self_rows)
    IN  IF sum([i \in DOMAIN present |-> self_rows[present[i]].score]) >= 63
        THEN 35
        ELSE 0

RECURSIVE total_score(_, _)
\* the loop of ScoreBoard.score over the rows still to visit
total_score(self_rows, keys) ==
    IF keys = {} THEN 0
    ELSE LET row_category == CHOOSE k \in keys : TRUE
         IN  self_rows[row_category].score + total_score(self_rows, keys \ {row_category})

\* Mutant of score: the bonus is not added
score_without_bonus(self_rows) == total_score(self_rows, DOMAIN self_rows)

\* ScoreBoard.score
score(self_rows) == total_score(self_rows, DOMAIN self_rows) + upper_section_bonus(self_rows)

---------------------------------------------------------------------------
(* The ScoreBoard.add calls a driver makes: those of the module's self test, *)
(* boundary cases of the bonus, and malformed arguments.                     *)

Call(combination, category) == [combination |-> combination, category |-> category]

Calls ==
    { Call(Tuple(<<1, 1, 3, 5, 4>>), "Aces"),
      Call(Tuple(<<1, 4, 1, 2, 1>>), "Aces"),
      Call(Tuple(<<1, 4, 1, 2, 1>>), "Deuces"),
      Call(Tuple(<<3, 3, 3, 3, 3>>), "Threes"),
      Call(List(<<3, 3, 3, 3, 3>>), "Threes"),
      Call(Tuple(<<4, 4, 4, 4, 4>>), "Fours"),
      Call(Tuple(<<5, 5, 5, 5, 5>>), "Fours"),
      Call(Tuple(<<5, 5, 5, 5, 5>>), "Fives"),
      Call(FloatTuple(<<5, 5, 5, 5, 5>>), "Fives"),
      Call(Tuple(<<6, 6, 6, 6, 6>>), "Sixs"),
      Call(Tuple(<<7, 7, 7, 7, 7>>), "Choice"),
      Call(Tuple(<<1, 1, 1, 2, 2>>), "FourOfAKind"),
      Call(Tuple(<<1, 1, 1, 2, 2>>), "FullHouse"),
      Call(Tuple(<<1, 1, 1>>), "FullHouse"),
      Call(Tuple(<<1, 2, 3, 4>>), "SmallStraight"),
      Call(Tuple(<<1, 2, 3, 4, 5, 6>>), "LargeStraight"),
      Call(Tuple(<<3, 3, 3, 3, 3>>), "Yacht"),
      Call(Tuple(<<1, 1, 3, 5, 4>>), NotACategory) }

---------------------------------------------------------------------------
(* Specification of a ScoreBoard *)

NoCall == Call(Tuple(<<>>), None)

measureVars == <<my_combination, my_category, measured>>
boardVars == <<rows, call, exc>>

\* ScoreBoard(): self.rows = dict()
Init ==
    /\ rows = <<>>
    /\ call = NoCall
    /\ exc = NotCalled
    /\ my_combination = <<>>
    /\ my_category = None
    /\ measured = Return(0)

\* board.add(combination=..., category=...)
Add(combination, category) ==
    LET r == ScoreBoard_add(rows, combination, category)
    IN  /\ rows' = r.val
        /\ exc' = r.exc
        /\ call' = Call(combination, category)
        /\ UNCHANGED measureVars

Next == \E c \in Calls : Add(c.combination, c.category)

Spec == Init /\ [][Next]_vars

---------------------------------------------------------------------------
(* Specification of Category.measure on every combination up to MaxLen dice *)

\* my_combination = rand_combination(k)
MeasureInit ==
    /\ rows = <<>>
    /\ call = NoCall
    /\ exc = NotCalled
    /\ my_combination \in UNION {rand_combination(k) : k \in 0..MaxLen}
    /\ my_category = None
    /\ measured = Return(0)

\* category.measure(my_combination), once per combination drawn: measure is
\* pure, a second call on the same combination reaches no state the first
\* call from MeasureInit does not
Measure(category) ==
    /\ my_category = None
    /\ my_category' = category
    /\ measured' = measure(category, my_combination)
    /\ UNCHANGED <<my_combination, rows, call, exc>>

MeasureNext == \E category \in Categories : Measure(category)

MeasureSpec == MeasureInit /\ [][MeasureNext]_vars

---------------------------------------------------------------------------
(* Properties of the ScoreBoard *)

\* The score committed under category k, 0 while the slot is empty.
Committed(k) == IF k \in DOMAIN rows THEN rows[k].score ELSE 0

UpperSum ==
    Committed("Aces") + Committed("Deuces") + Committed("Threes")
        + Committed("Fours") + Committed("Fives") + Committed("Sixs")

LowerSum ==
    Committed("Choice") + Committed("FourOfAKind") + Committed("FullHouse")
        + Committed("SmallStraight") + Committed("LargeStraight") + Committed("Yacht")

\* C1: an add whose category already has an entry raises the duplicate-category
\* ValueError and leaves the board as it was: the same filled categories, the
\* same number of rows, the same row under every category.
C1_DuplicateAddRejected ==
    [][call'.category \in DOMAIN rows =>
          /\ exc' = ValueError_duplicate
          /\ DOMAIN rows' = DOMAIN rows
          /\ Cardinality(DOMAIN rows') = Cardinality(DOMAIN rows)
          /\ \A k \in DOMAIN rows :
                /\ rows'[k].combination = rows[k].combination
                /\ rows'[k].score = rows[k].score
                /\ rows'[k] = rows[k]]_vars

\* A duplicate add with another combination than the committed one was rejected.
C1_Witness ==
    /\ exc = ValueError_duplicate
    /\ call.category \in DOMAIN rows
    /\ rows[call.category].combination # call.combination

\* C2: over any sequence of adds a slot only goes from empty to filled: a
\* filled category stays filled with the very same row, and a step fills at
\* most one slot.
C2_AppendOnly ==
    [][/\ \A k \in DOMAIN rows : k \in DOMAIN rows' /\ rows'[k] = rows[k]
       /\ Cardinality(DOMAIN rows') <= Cardinality(DOMAIN rows) + 1]_vars

\* Several rows are committed and a further add on a filled slot has failed.
C2_Witness ==
    /\ Cardinality(DOMAIN rows) >= 3
    /\ exc = ValueError_duplicate

C3_RowOfItsCategory ==
    \A K \in DOMAIN rows :
        /\ rows[K].category = K
        /\ measure(K, rows[K].combination.elems).exc = NoException
        /\ rows[K].score = measure(K, rows[K].combination.elems).val

\* C3: every row stored under K has category K and the score
\* K.measure(its combination), and a committed row's score never changes.
C3_ScoreIsMeasure ==
    /\ []C3_RowOfItsCategory
    /\ [][\A K \in DOMAIN rows :
             K \in DOMAIN rows' /\ rows'[K].score = rows[K].score]_vars

\* A row whose combination does not match its category (score 0) sits beside
\* a row that matches.
C3_Witness ==
    /\ "FourOfAKind" \in DOMAIN rows
    /\ rows["FourOfAKind"].score = 0
    /\ "Sixs" \in DOMAIN rows
    /\ rows["Sixs"].score = 30

\* C4: upper_section_bonus is 35 when the committed scores of Aces..Sixs sum
\* to 63 or more and 0 otherwise; empty slots count 0 and the lower section
\* does not count.
C4_UpperSectionBonus ==
    upper_section_bonus(rows) = IF UpperSum >= 63 THEN 35 ELSE 0

\* The upper section sums to exactly 63 and the bonus is granted.
C4_Witness ==
    /\ UpperSum = 63
    /\ upper_section_bonus(rows) = 35

\* The upper section sums to 62, the lower section holds more, no bonus.
C4_Witness62 ==
    /\ UpperSum = 62
    /\ LowerSum > 0
    /\ upper_section_bonus(rows) = 0

Board22 ==
    /\ DOMAIN rows = {"Aces", "Fours"}
    /\ rows["Aces"].combination = Tuple(<<1, 1, 3, 5, 4>>)
    /\ rows["Fours"].combination = Tuple(<<4, 4, 4, 4, 4>>)

Board110 ==
    /\ DOMAIN rows = {"Aces", "Deuces", "Threes", "Fours", "Fives", "Sixs"}
    /\ rows["Deuces"].combination = Tuple(<<1, 4, 1, 2, 1>>)
    /\ rows["Aces"].combination = Tuple(<<1, 4, 1, 2, 1>>)
    /\ rows["Fours"].combination = Tuple(<<5, 5, 5, 5, 5>>)
    /\ rows["Sixs"].combination = Tuple(<<6, 6, 6, 6, 6>>)
    /\ rows["Fives"].combination = Tuple(<<5, 5, 5, 5, 5>>)
    /\ rows["Threes"].combination = Tuple(<<3, 3, 3, 3, 3>>)

\* C5: score is the sum of all committed scores, upper and lower, plus
\* upper_section_bonus; the two boards of the self test score 22 and 110.
C5_ScoreIsSumPlusBonus ==
    /\ score(rows) = UpperSum + LowerSum + upper_section_bonus(rows)
    /\ Board22 => score(rows) = 22 /\ upper_section_bonus(rows) = 0
    /\ Board110 => score(rows) = 110 /\ upper_section_bonus(rows) = 35

\* The six-category board of the self test, scoring 110.
C5_Witness ==
    /\ Board110
    /\ score(rows) = 110

\* The two-row board of the self test, scoring 22.
C5_Witness22 ==
    /\ Board22
    /\ score(rows) = 22

\* A combination that is not a tuple of exactly 5 ints in [1,6].
Malformed(c) ==
    \/ ~c.tuple
    \/ ~c.ints
    \/ Len(c.elems) # COMBINATION_LENGTH
    \/ \E i \in DOMAIN c.elems : c.elems[i] \notin DICE_NUMBERS

\* C6 as stated: a malformed combination handed to add is never accepted and
\* scored, whatever the category; the call raises.
C6_MalformedNeverAccepted ==
    (exc # NotCalled /\ Malformed(call.combination)) => exc # NoException

\* C6 as the code has it: on an empty slot of a category, a combination that
\* is not a tuple of ints raises the combination TypeError; a tuple of ints
\* whose length is not 5 raises the length ValueError for FullHouse only; any
\* other malformed tuple of ints (another length, values outside [1,6]) is
\* accepted and scored by the category's rule.
C6_MalformedRejectedByTypeOrFullHouse ==
    [][LET c == call'.combination
           k == call'.category
       IN  (IsCategory(k) /\ k \notin DOMAIN rows /\ Malformed(c)) =>
              IF ~c.tuple \/ ~c.ints
              THEN exc' = TypeError_combination /\ rows' = rows
              ELSE IF k = "FullHouse" /\ Len(c.elems) # 5
              THEN exc' = ValueError_length /\ rows' = rows
              ELSE /\ exc' = NoException
                   /\ k \in DOMAIN rows'
                   /\ rows'[k].combination = c
                   /\ rows'[k].score = measure(k, c.elems).val]_vars

\* Five sevens were accepted for Choice and scored 35.
C6_Witness ==
    /\ exc = NoException
    /\ call = Call(Tuple(<<7, 7, 7, 7, 7>>), "Choice")
    /\ "Choice" \in DOMAIN rows
    /\ rows["Choice"].score = 35

ConstructionErrors == {ValueError_length, TypeError_combination, TypeError_category}

\* The well-formed combinations the driver has for category k.
WellFormedFor(k) ==
    {c.combination : c \in {x \in Calls : x.category = k /\ ~Malformed(x.combination)}}

DiceInRange(c) == \A i \in DOMAIN c.elems : c.elems[i] \in DICE_NUMBERS

\* C11: over any sequence of adds with dice in [1,6] the score never goes
\* down from one state to the next and the upper section bonus, once 35,
\* stays 35; every score a step commits is non-negative.
C11_ScoreNeverDecreases ==
    [][DiceInRange(call'.combination) =>
          /\ score(rows') >= score(rows)
          /\ upper_section_bonus(rows) = 35 => upper_section_bonus(rows') = 35
          /\ \A k \in DOMAIN rows' \ DOMAIN rows : rows'[k].score >= 0]_vars

\* The bonus was already granted before the last add, which committed a
\* further upper-section row with a positive score.
C11_Witness ==
    /\ exc = NoException
    /\ call.category \in uniques(UPPER_SECTION_CATEGORIES)
    /\ call.category \in DOMAIN rows
    /\ DiceInRange(call.combination)
    /\ rows[call.category].score > 0
    /\ UpperSum - rows[call.category].score >= 63
    /\ upper_section_bonus(rows) = 35

---------------------------------------------------------------------------
(* Properties of Category.measure *)

\* Number of dice of my_combination showing v.
Showing(v) == Cardinality({i \in DOMAIN my_combination : my_combination[i] = v})

\* C7: on 5 dice FullHouse.measure is the sum of the dice when one face shows
\* three times and another twice, and 0 otherwise; on any other length it
\* raises the length ValueError.
C7_FullHouse ==
    my_category = "FullHouse" =>
        IF Len(my_combination) = 5
        THEN measured =
                Return(IF \E a, b \in DICE_NUMBERS :
                              a # b /\ Showing(a) = 3 /\ Showing(b) = 2
                       THEN my_combination[1] + my_combination[2] + my_combination[3]
                                + my_combination[4] + my_combination[5]
                       ELSE 0)
        ELSE measured.exc = ValueError_length

\* FullHouse.measure((1, 1, 1, 2, 2)) returned 7.
C7_Witness ==
    /\ my_category = "FullHouse"
    /\ my_combination = <<1, 1, 1, 2, 2>>
    /\ measured = Return(7)

\* FullHouse.measure((1, 1, 1)) raised.
C7_WitnessRaise ==
    /\ my_category = "FullHouse"
    /\ my_combination = <<1, 1, 1>>
    /\ measured.exc = ValueError_length

Windows == {{1, 2, 3, 4}, {2, 3, 4, 5}, {3, 4, 5, 6}}

\* C8: on 5 dice SmallStraight.measure is 15 exactly when the dice contain one
\* of the windows 1-4, 2-5, 3-6 and 0 otherwise, and the templates are these
\* three windows.
C8_SmallStraight ==
    /\ Straight_templates("SmallStraight")
          = <<<<1, 2, 3, 4>>, <<2, 3, 4, 5>>, <<3, 4, 5, 6>>>>
    /\ (my_category = "SmallStraight" /\ Len(my_combination) = 5) =>
          measured = Return(IF \E w \in Windows : \A v \in w : Showing(v) >= 1
                            THEN 15
                            ELSE 0)

\* SmallStraight.measure((6, 3, 6, 5, 4)) returned 15.
C8_Witness ==
    /\ my_category = "SmallStraight"
    /\ my_combination = <<6, 3, 6, 5, 4>>
    /\ measured = Return(15)

\* The face value of an upper-section category: its place in Aces..Sixs.
FaceValue(category) ==
    CHOOSE v \in DICE_NUMBERS : UPPER_SECTION_CATEGORIES[v] = category

\* C9: on 5 dice every face category matches and measures v times the number
\* of dice showing v, its face value.
C9_FaceCategories ==
    (my_category \in uniques(UPPER_SECTION_CATEGORIES) /\ Len(my_combination) = 5) =>
        /\ match(my_category, my_combination) = Return(TRUE)
        /\ measured = Return(FaceValue(my_category) * Showing(FaceValue(my_category)))

\* Sixs.measure((6, 6, 1, 6, 2)) returned 18.
C9_Witness ==
    /\ my_category = "Sixs"
    /\ my_combination = <<6, 6, 1, 6, 2>>
    /\ measured = Return(18)

\* Aces.measure((2, 3, 4, 5, 6)) returned 0.
C9_WitnessZero ==
    /\ my_category = "Aces"
    /\ my_combination = <<2, 3, 4, 5, 6>>
    /\ measured = Return(0)

=============================================================================
